---- MODULE Spec2Model ----
(***************************************************************************)
(* lmstudio-underpass: the authenticating reverse proxy.                   *)
(*                                                                         *)
(* The repository holds two server entry points with the same middleware  *)
(* functions and different registrations:                                  *)
(*   src/server.js          (cors, express.json, ipRestriction mounted)    *)
(*   src/unnamed/part_000   (ipRestriction defined but not mounted,        *)
(*                           loopback bypass, edge-error interception)     *)
(* The variable build says which of the two is running.                    *)
(*                                                                         *)
(* JavaScript strings are sequences of one-character strings, so that      *)
(* startsWith, substring, split and parseInt are computed and not assumed. *)
(* A value that may be undefined is a record [defined, str].               *)
(***************************************************************************)
EXTENDS Integers, Sequences, FiniteSets, TLC

VARIABLES
    build,        \* which entry point runs: "server.js" or "part_000"
    API_KEY,      \* const API_KEY            (part_000:13, server.js:11)
    ALLOWED_IPS,  \* const ALLOWED_IPS        (part_000:14, server.js:12)
    inputs,       \* which inputs are explored in detail: "admission", "forwarding" or
                  \* "addressing"
    listening,    \* app.listen has called back
    req,          \* the inbound request being dispatched
    pos,          \* index in the middleware chain of the next middleware; 0 = none yet
    thrown,       \* the error handed to next(err)
    res,          \* the response written to the caller
    proxyReq,     \* the request issued to the upstream (LM Studio)
    proxyRes,     \* the response of the upstream as received so far
    socket,       \* the caller's connection: "open" or "destroyed"
    uncaught,     \* the exception thrown out of an event handler, or "none"
    console,      \* lines logged since the server started or the current request arrived
    cidr          \* input and result of the stand-alone CIDR test (SpecCidr)

vars ==
    <<build, API_KEY, ALLOWED_IPS, inputs, listening, req, pos, thrown, res, proxyReq, proxyRes,
      socket, uncaught, console, cidr>>

----------------------------------------------------------------------------
(* JavaScript strings and optional values *)

Undefined == [defined |-> FALSE, str |-> <<>>]

Str(s) == [defined |-> TRUE, str |-> s]

\* JS truthiness of a string-or-undefined value: undefined and "" are falsy.
Truthy(v) == v.defined /\ v.str # <<>>

\* a || b
OrElse(a, b) == IF Truthy(a) THEN a ELSE b

\* s.startsWith(p)
StartsWith(s, p) == Len(s) >= Len(p) /\ SubSeq(s, 1, Len(p)) = p

\* s.substring(n)
Substring(s, n) == SubSeq(s, n + 1, Len(s))

\* s.substring(0, n)
SubstringTo(s, n) == SubSeq(s, 1, IF n < Len(s) THEN n ELSE Len(s))

\* s.includes(c), c one character
Includes(s, c) == \E i \in 1..Len(s) : s[i] = c

\* index of the first c in s, or 0
IndexOf(s, c) == IF Includes(s, c)
      THEN CHOOSE i \in 1..Len(s) : s[i] = c /\ \A j \in 1..(i - 1) : s[j] # c ELSE 0

RECURSIVE Split(_, _)
\* s.split(c): the sequence of the pieces of s between the occurrences of c
Split(s, c) ==
    IF ~Includes(s, c) THEN <<s>>
    ELSE <<SubSeq(s, 1, IndexOf(s, c) - 1)>> \o Split(SubSeq(s, IndexOf(s, c) + 1, Len(s)), c)

IsSpace(c) == c \in {" ", "\t"}

RECURSIVE TrimStart(_)
TrimStart(s) == IF s # <<>> /\ IsSpace(s[1]) THEN TrimStart(Tail(s)) ELSE s

RECURSIVE TrimEnd(_)
TrimEnd(s) == IF s # <<>> /\ IsSpace(s[Len(s)]) THEN TrimEnd(SubSeq(s, 1, Len(s) - 1)) ELSE s

\* s.trim()
Trim(s) == TrimEnd(TrimStart(s))

----------------------------------------------------------------------------
(* Literals of the source *)

BEARER == <<"B", "e", "a", "r", "e", "r", " ">>

SK == <<"s", "k", "-">>

\* "bearer ": the prefix as a caller may write it, which the code does not strip
LOWER_BEARER == <<"b", "e", "a", "r", "e", "r", " ">>

DEFAULT_API_KEY ==
    SK \o <<"1","2","3","4","5","6","7","8","9","0","a","b","c","d","e","f">>
       \o <<"1","2","3","4","5","6","7","8","9","0","a","b","c","d","e","f">>

----------------------------------------------------------------------------
(* validateApiKey *)

\* a log line
Line(tag, text) == [tag |-> tag, text |-> text]

\* what a middleware does: next(), or res.status(status).json(body); and what it logs
NextResult(log) == [next |-> TRUE, status |-> 0, body |-> <<>>, log |-> log]

Reject(status, body, log) == [next |-> FALSE, status |-> status, body |-> body, log |-> log]

\* a plausible slip: "bearer " in any case is stripped
ProvidedKey_IgnoreCase(authHeader) ==
    IF StartsWith(authHeader, BEARER) \/ StartsWith(authHeader, LOWER_BEARER)
    THEN Substring(authHeader, 7) ELSE authHeader

\* let providedKey = authHeader; if (authHeader.startsWith('Bearer ')) providedKey = authHeader.substring(7)
ProvidedKey(authHeader) ==
    IF StartsWith(authHeader, BEARER) THEN Substring(authHeader, 7) ELSE authHeader

\* a plausible slip: <= for <
TooShort_Le10(providedKey) == Len(providedKey) <= 10

\* providedKey.length < 10
TooShort(providedKey) == Len(providedKey) < 10

\* a plausible slip: the first 10 characters are compared, as in the log line
KeyDiffers_Prefix10(providedKey, apiKey) == SubstringTo(providedKey, 10) # SubstringTo(apiKey, 10)

\* providedKey !== API_KEY
KeyDiffers(providedKey, apiKey) == providedKey # apiKey

\* a plausible slip: a wrong key answered 403
validateApiKey_Mismatch403(authHeader, apiKey) ==
    IF ~Truthy(authHeader)
    THEN Reject(401, [error |-> "Missing authorization header",
                      message |-> "Please provide an API key in the Authorization header"], <<>>)
    ELSE LET providedKey == ProvidedKey(authHeader.str) IN
         IF ~StartsWith(providedKey, SK)
         THEN Reject(401, [error |-> "Invalid API key format",
                           message |-> "API key must start with \"sk-\""], <<>>)
         ELSE IF TooShort(providedKey)
         THEN Reject(401, [error |-> "Invalid API key format",
                           message |-> "API key is too short"], <<>>)
         ELSE IF KeyDiffers(providedKey, apiKey)
         THEN Reject(403, [error |-> "Invalid API key",
                           message |-> "The provided API key is not valid"],
                     <<Line("Invalid API key attempt", SubstringTo(providedKey, 10))>>)
         ELSE NextResult(<<>>)

\* a plausible slip: the length is checked before the prefix
validateApiKey_LengthFirst(authHeader, apiKey) ==
    IF ~Truthy(authHeader)
    THEN Reject(401, [error |-> "Missing authorization header",
                      message |-> "Please provide an API key in the Authorization header"], <<>>)
    ELSE LET providedKey == ProvidedKey(authHeader.str) IN
         IF TooShort(providedKey)
         THEN Reject(401, [error |-> "Invalid API key format",
                           message |-> "API key is too short"], <<>>)
         ELSE IF ~StartsWith(providedKey, SK)
         THEN Reject(401, [error |-> "Invalid API key format",
                           message |-> "API key must start with \"sk-\""], <<>>)
         ELSE IF KeyDiffers(providedKey, apiKey)
         THEN Reject(401, [error |-> "Invalid API key",
                           message |-> "The provided API key is not valid"],
                     <<Line("Invalid API key attempt", SubstringTo(providedKey, 10))>>)
         ELSE NextResult(<<>>)

\* The middleware as a function of the Authorization header and the configured key:
\* either next() or the response it writes, with the line it logs.
validateApiKey(authHeader, apiKey) ==
    IF ~Truthy(authHeader)
    THEN Reject(401, [error |-> "Missing authorization header",
                      message |-> "Please provide an API key in the Authorization header"], <<>>)
    ELSE LET providedKey == ProvidedKey(authHeader.str) IN
         IF ~StartsWith(providedKey, SK)
         THEN Reject(401, [error |-> "Invalid API key format",
                           message |-> "API key must start with \"sk-\""], <<>>)
         ELSE IF TooShort(providedKey)
         THEN Reject(401, [error |-> "Invalid API key format",
                           message |-> "API key is too short"], <<>>)
         ELSE IF KeyDiffers(providedKey, apiKey)
         THEN Reject(401, [error |-> "Invalid API key",
                           message |-> "The provided API key is not valid"],
                     <<Line("Invalid API key attempt", SubstringTo(providedKey, 10))>>)
         ELSE NextResult(<<>>)

----------------------------------------------------------------------------
(* JavaScript numbers, as far as ipToNumber and the CIDR mask use them.    *)
(* A number is NaN or an integer.  The bitwise operators work on 32-bit    *)
(* two's-complement integers; an integer that only ever flows into ToInt32 *)
(* or ToUint32 is kept as its int32 residue, which those conversions do    *)
(* not distinguish from the exact value.                                   *)

NaN == [nan |-> TRUE, val |-> 0]

Num(n) == [nan |-> FALSE, val |-> n]

MaxInt32 == 2147483647

MinInt32 == (-MaxInt32) - 1

\* ToInt32 of a number already held as an int32 residue: NaN becomes 0
ToInt32(x) == IF x.nan THEN 0 ELSE x.val

\* int32 residue of a + b, a and b int32
Add32(a, b) ==
    IF a >= 0 /\ b >= 0 /\ a > MaxInt32 - b THEN (a + MinInt32) + (b + MinInt32)
    ELSE IF a < 0 /\ b < 0 /\ a < MinInt32 - b THEN (a - MinInt32) + (b - MinInt32)
    ELSE a + b

\* a << 8 on int32
Shl8(a) ==
    LET u == a % 16777216 IN
    IF u >= 8388608 THEN (u - 16777216) * 256 ELSE u * 256

\* ~a on int32
BitNot(a) == (-1) - a

\* an unsigned 32-bit value in two 16-bit halves
U32(hi, lo) == [hi |-> hi, lo |-> lo]

\* a >>> 0: ToUint32
ToUint32(x) ==
    LET v == ToInt32(x) IN U32((v \div 65536) % 65536, v % 65536)

\* ToInt32 of an unsigned 32-bit value
U32ToInt32(u) == IF u.hi >= 32768 THEN (u.hi - 65536) * 65536 + u.lo ELSE u.hi * 65536 + u.lo

RECURSIVE AndBits(_, _, _)
\* bitwise and of the low n bits of x and y, x and y non-negative
AndBits(x, y, n) ==
    IF n = 0 THEN 0 ELSE (x % 2) * (y % 2) + 2 * AndBits(x \div 2, y \div 2, n - 1)

\* a & b on int32
BitAnd(a, b) ==
    LET hi == AndBits((a \div 65536) % 65536, (b \div 65536) % 65536, 16)
        lo == AndBits(a % 65536, b % 65536, 16)
    IN  U32ToInt32(U32(hi, lo))

Digits == <<"0", "1", "2", "3", "4", "5", "6", "7", "8", "9">>

IsDigit(c) == \E d \in 1..10 : Digits[d] = c

DigitVal(c) == (CHOOSE d \in 1..10 : Digits[d] = c) - 1

RECURSIVE DigitsValue(_, _)
\* the value of the longest prefix of digits of s, after acc
DigitsValue(s, acc) ==
    IF s # <<>> /\ IsDigit(s[1]) THEN DigitsValue(Tail(s), acc * 10 + DigitVal(s[1])) ELSE acc

\* parseInt(s, 10): leading white space is skipped, then an optional sign, then
\* the longest run of digits; NaN when there is no digit
parseInt(s) ==
    LET t    == TrimStart(s)
        neg  == t # <<>> /\ t[1] = "-"
        body == IF t # <<>> /\ t[1] \in {"-", "+"} THEN Tail(t) ELSE t
    IN  IF body = <<>> \/ ~IsDigit(body[1]) THEN NaN
        ELSE Num(IF neg THEN -DigitsValue(body, 0) ELSE DigitsValue(body, 0))

\* x + y of JS numbers, the result kept as an int32 residue
NumAdd(x, y) == IF x.nan \/ y.nan THEN NaN ELSE Num(Add32(x.val, y.val))

RECURSIVE ReduceOctets(_, _)
\* octets.reduce((acc, octet) => (acc << 8) + parseInt(octet, 10), acc)
ReduceOctets(octets, acc) ==
    IF octets = <<>> THEN acc
    ELSE ReduceOctets(Tail(octets), NumAdd(Num(Shl8(ToInt32(acc))), parseInt(Head(octets))))

\* function ipToNumber(ip)
ipToNumber(ip) == ToUint32(ReduceOctets(Split(ip, "."), Num(0)))

\* ToInt32(2 ** e - 1) for a JS number e
Pow2Minus1(e) ==
    IF e.nan THEN 0
    ELSE IF e.val <= 0 THEN 0
    ELSE IF e.val <= 30 THEN 2 ^ e.val - 1
    ELSE IF e.val = 31 THEN MaxInt32
    ELSE IF e.val <= 53 THEN -1
    ELSE 0

\* a plausible slip: ~((1 << (32 - p)) - 1), whose shift count is taken modulo 32
CidrMask_Shift(prefixLength) ==
    LET p == parseInt(prefixLength) IN
    BitNot(Pow2Minus1(IF p.nan THEN NaN ELSE Num((32 - p.val) % 32)))

\* const mask = ~(2 ** (32 - parseInt(prefixLength)) - 1)
CidrMask(prefixLength) ==
    LET p == parseInt(prefixLength) IN
    BitNot(Pow2Minus1(IF p.nan THEN NaN ELSE Num(32 - p.val)))

\* the body of the some() callback for an entry that includes '/'
CidrMatch(clientIp, allowedIp) ==
    LET parts        == Split(allowedIp, "/")
        network      == parts[1]
        prefixLength == parts[2]
        mask         == CidrMask(prefixLength)
        networkNum   == BitAnd(U32ToInt32(ipToNumber(network)), mask)
        clientNum    == BitAnd(U32ToInt32(ipToNumber(clientIp)), mask)
    IN  networkNum = clientNum

\* a plausible slip: an entry without '/' matches the equal address only
EntryMatches_Exact(clientIp, allowedIp) ==
    IF Includes(allowedIp, "/") THEN CidrMatch(clientIp, allowedIp)
    ELSE clientIp = allowedIp

\* the some() callback
EntryMatches(clientIp, allowedIp) ==
    IF Includes(allowedIp, "/") THEN CidrMatch(clientIp, allowedIp)
    ELSE clientIp = allowedIp \/ StartsWith(clientIp, allowedIp)

\* const isAllowed = ALLOWED_IPS.some(...)
IsAllowed(clientIp, allowed) == \E i \in 1..Len(allowed) : EntryMatches(clientIp, allowed[i])

----------------------------------------------------------------------------
(* Client address and ipRestriction *)

LOCALHOST_V4 == <<"1", "2", "7", ".", "0", ".", "0", ".", "1">>

LOCALHOST_V6 == <<":", ":", "1">>

LOCALHOST_MAPPED == <<":", ":", "f", "f", "f", "f", ":">> \o LOCALHOST_V4

LOCALHOST_PREFIX == <<"1", "2", "7", ".">>

LOCALHOST_NAME == <<"l", "o", "c", "a", "l", "h", "o", "s", "t">>

\* xForwardedFor ? xForwardedFor.split(',')[0].trim() : null
FirstForwarded(xForwardedFor) ==
    IF Truthy(xForwardedFor) THEN Str(Trim(Split(xForwardedFor.str, ",")[1])) ELSE Undefined

\* a plausible slip: the forwarded-for chain comes before req.ip
ClientIp_ForwardedFirst(r) ==
    LET cfConnectingIp == OrElse(r.headers.cf_connecting_ip, Undefined)
        xForwardedFor  == r.headers.x_forwarded_for
        xRealIp        == r.headers.x_real_ip
    IN  OrElse(cfConnectingIp,
        OrElse(FirstForwarded(xForwardedFor),
        OrElse(r.ip,
        OrElse(xRealIp,
        OrElse(r.remoteAddress, r.remoteAddress)))))

\* a plausible slip: the peer address comes before CF-Connecting-IP
ClientIp_PeerFirst(r) ==
    LET cfConnectingIp == OrElse(r.headers.cf_connecting_ip, Undefined)
        xForwardedFor  == r.headers.x_forwarded_for
        xRealIp        == r.headers.x_real_ip
    IN  OrElse(r.ip,
        OrElse(cfConnectingIp,
        OrElse(FirstForwarded(xForwardedFor),
        OrElse(xRealIp,
        OrElse(r.remoteAddress, r.remoteAddress)))))

\* const clientIp = cfConnectingIp || req.ip || (...) || xRealIp ||
\*                  req.connection?.remoteAddress || req.socket?.remoteAddress
\* Node lower-cases header names, so req.headers['CF-Connecting-IP'] is undefined.
ClientIp(r) ==
    LET cfConnectingIp == OrElse(r.headers.cf_connecting_ip, Undefined)
        xForwardedFor  == r.headers.x_forwarded_for
        xRealIp        == r.headers.x_real_ip
    IN  OrElse(cfConnectingIp,
        OrElse(r.ip,
        OrElse(FirstForwarded(xForwardedFor),
        OrElse(xRealIp,
        OrElse(r.remoteAddress, r.remoteAddress)))))

\* const isLocalhost = ...   (part_000 only)
IsLocalhost(clientIp) ==
    \/ clientIp = LOCALHOST_V4
    \/ clientIp = LOCALHOST_V6
    \/ clientIp = LOCALHOST_MAPPED
    \/ StartsWith(clientIp, LOCALHOST_PREFIX)
    \/ clientIp = LOCALHOST_NAME

\* a plausible slip: the empty list is not special-cased
NoRestrictions_Never(allowed) == FALSE

\* ALLOWED_IPS.length === 0
NoRestrictions(allowed) == Len(allowed) = 0

\* The middleware ipRestriction of entry point b, as a function of the request and
\* the allow-list.  The loopback bypass exists in part_000 only.
ipRestriction(r, allowed, b) ==
    IF NoRestrictions(allowed) THEN NextResult(<<>>)
    ELSE LET clientIp == ClientIp(r)
             detect   == Line("IP Detection", IF Truthy(clientIp) THEN clientIp.str ELSE <<>>)
         IN  IF ~Truthy(clientIp)
             THEN Reject(403, [error |-> "Unable to determine client IP"],
                         <<detect, Line("Blocked: Unable to determine client IP", <<>>)>>)
             ELSE IF b = "part_000" /\ IsLocalhost(clientIp.str)
             THEN NextResult(<<detect, Line("Allowed: Request from localhost", clientIp.str)>>)
             ELSE IF ~IsAllowed(clientIp.str, allowed)
             THEN Reject(403, [error |-> "IP address not allowed"],
                         <<detect, Line("Blocked: IP is not in ALLOWED_IPS list", clientIp.str)>>)
             ELSE NextResult(<<detect, Line("Allowed: IP is in ALLOWED_IPS list", clientIp.str)>>)

\* the request logging middleware's requesterIp
RequesterIp(r) == OrElse(ClientIp(r), Str(<<"u", "n", "k", "n", "o", "w", "n">>))

----------------------------------------------------------------------------
(* Configuration and requests the model draws from *)

\* longest run of "a" after "sk-" in the keys tried
MaxPad == 8

\* "sk-" followed by n times "a": a key of length 3 + n
SkKey(n) == SK \o [i \in 1..n |-> "a"]

OTHER_KEY == <<"m", "y", "-", "s", "e", "c", "r", "e", "t", "-", "1">>

\* process.env.API_KEY: unset, or a key of length 10, of length 9, or without "sk-"
EnvApiKeys == {Undefined, Str(SkKey(7)), Str(SkKey(6)), Str(OTHER_KEY)}

\* keys a caller may send
CallerKeys == {SkKey(n) : n \in {0} \cup (6..MaxPad)} \cup {DEFAULT_API_KEY, OTHER_KEY}

\* "Bearer": what arrives of "Bearer " and an empty key
BEARER_ALONE == <<"B", "e", "a", "r", "e", "r">>

\* values of the Authorization header: absent, empty, a key, "Bearer " and a key,
\* and the prefix in lower case or twice.  Node's parser strips the white space
\* around a header value, so no value starts or ends with a space.
AuthHeaders ==
    {Undefined, Str(<<>>), Str(BEARER_ALONE), Str(LOWER_BEARER \o SkKey(7)),
          Str(BEARER \o BEARER \o SkKey(7))}
    \cup {Str(k) : k \in CallerKeys}
    \cup {Str(BEARER \o k) : k \in CallerKeys}

IP_10_1_2_3 == <<"1", "0", ".", "1", ".", "2", ".", "3">>

IP_11_1_2_3 == <<"1", "1", ".", "1", ".", "2", ".", "3">>

IP_192_168_1_50 == <<"1", "9", "2", ".", "1", "6", "8", ".", "1", ".", "5", "0">>

\* "11.1.2.3 , 10.1.2.3": a forwarded-for chain with white space around the comma
XFF_CHAIN == IP_11_1_2_3 \o <<" ", ",", " ">> \o IP_10_1_2_3

\* "10.0.0.0/8"
CIDR_10_8 == <<"1", "0", ".", "0", ".", "0", ".", "0", "/", "8">>

\* "192.168.1.5,10.0.0.0/8"
LIST_PLAIN_CIDR == <<"1", "9", "2", ".", "1", "6", "8", ".", "1", ".", "5", ",">> \o CIDR_10_8

\* process.env.ALLOWED_IPS
EnvAllowedIps == {Undefined, Str(CIDR_10_8), Str(LIST_PLAIN_CIDR)}

Builds == {"server.js", "part_000"}

LM_STUDIO_URL == "http://192.168.50.193:5595"

\* "/health"
HEALTH_PATH == <<"/", "h", "e", "a", "l", "t", "h">>

\* "/v1"
V1 == <<"/", "v", "1">>

\* GET /health, GET /v1/models, POST /v1/chat/completions
Routes ==
    { <<"GET", HEALTH_PATH>>,
      <<"GET", <<"/", "v", "1", "/", "m", "o", "d", "e", "l", "s">>>>,
      <<"POST", <<"/", "v", "1", "/", "c", "h", "a", "t", "/", "c", "o", "m", "p", "l", "e", "t",
                "i", "o", "n", "s">>>> }

\* The transport peer address; undefined once the socket is gone.  Without
\* 'trust proxy' Express reports req.ip = req.socket.remoteAddress.
PeerAddresses == {Undefined, Str(LOCALHOST_V4), Str(IP_11_1_2_3)}

NoHeaders ==
    [authorization |-> Undefined, cf_connecting_ip |-> Undefined,
     x_forwarded_for |-> Undefined, x_real_ip |-> Undefined,
     x_forwarded_proto |-> Undefined, x_forwarded_host |-> Undefined,
     cf_ray |-> Undefined, content_type |-> Undefined]

\* requests without a body that differ in credential and in the address headers
Requests ==
    { [method |-> rt[1], path |-> rt[2],
       headers |-> [NoHeaders EXCEPT !.authorization = a, !.cf_connecting_ip = cf,
                                     !.x_forwarded_for = xff, !.x_real_ip = xr],
       body |-> <<>>, readable |-> TRUE,
       ip |-> peer, remoteAddress |-> peer] :
      rt \in Routes, a \in AuthHeaders, cf \in {Undefined, Str(IP_10_1_2_3)},
      xff \in {Undefined, Str(XFF_CHAIN)}, xr \in {Undefined, Str(IP_192_168_1_50)},
      peer \in PeerAddresses }

\* the headers an edge network adds in front of the server, all or none;
\* X-Forwarded-Proto: https, X-Forwarded-Host: llm.example.com, CF-Ray: 8f1a2b3c-SJC
EdgeHeaders ==
    { NoHeaders,
      [NoHeaders EXCEPT
          !.cf_connecting_ip = Str(IP_10_1_2_3),
          !.x_forwarded_for = Str(XFF_CHAIN),
          !.x_real_ip = Str(IP_192_168_1_50),
          !.x_forwarded_proto = Str(<<"h", "t", "t", "p", "s">>),
          !.x_forwarded_host = Str(<<"l", "l", "m", ".", "e", "x", "a", "m", "p", "l", "e", ".", "c", "o", "m">>),
          !.cf_ray = Str(<<"8", "f", "1", "a", "2", "b", "3", "c", "-", "S", "J", "C">>)] }

\* "application/json"
APPLICATION_JSON ==
    <<"a", "p", "p", "l", "i", "c", "a", "t", "i", "o", "n", "/", "j", "s", "o", "n">>

\* "{"a":1}"
JSON_OK == <<"{", "\"", "a", "\"", ":", "1", "}">>

\* Content-Type and body of a request: none, JSON, JSON cut short ({"a":), and JSON
\* sent as text/plain
Payloads ==
    { [type |-> Undefined, body |-> <<>>],
      [type |-> Str(APPLICATION_JSON), body |-> JSON_OK],
      [type |-> Str(APPLICATION_JSON), body |-> <<"{", "\"", "a", "\"", ":">>],
      [type |-> Str(<<"t", "e", "x", "t", "/", "p", "l", "a", "i", "n">>), body |-> JSON_OK] }

\* requests that differ in what is forwarded: edge headers, Content-Type and body
ForwardingRequests ==
    { [method |-> rt[1], path |-> rt[2],
       headers |-> [e EXCEPT !.authorization = a, !.content_type = p.type],
       body |-> p.body, readable |-> TRUE,
       ip |-> Str(IP_11_1_2_3), remoteAddress |-> Str(IP_11_1_2_3)] :
      rt \in Routes, a \in {Undefined, Str(DEFAULT_API_KEY), Str(BEARER \o DEFAULT_API_KEY)},
      e \in EdgeHeaders, p \in Payloads }

\* the health path with a trailing slash, in capitals and with another method, next
\* to GET /health and GET /v1/models
AddressRoutes ==
    { <<"GET", HEALTH_PATH>>, <<"HEAD", HEALTH_PATH>>, <<"POST", HEALTH_PATH>>,
      <<"GET", HEALTH_PATH \o <<"/">>>>,
      <<"GET", <<"/", "H", "E", "A", "L", "T", "H">>>>,
      <<"GET", HEALTH_PATH \o <<"z">>>>,
      <<"GET", <<"/", "v", "1", "/", "m", "o", "d", "e", "l", "s">>>> }

\* requests that differ in route and in the address headers: CF-Connecting-IP
\* may be empty, X-Forwarded-For may start with a comma (", 10.1.2.3")
AddressRequests ==
    { [method |-> rt[1], path |-> rt[2],
       headers |-> [NoHeaders EXCEPT !.authorization = a, !.cf_connecting_ip = cf,
                                     !.x_forwarded_for = xff, !.x_real_ip = xr],
       body |-> <<>>, readable |-> TRUE,
       ip |-> peer, remoteAddress |-> peer] :
      rt \in AddressRoutes, a \in {Undefined, Str(DEFAULT_API_KEY)},
      cf \in {Undefined, Str(<<>>), Str(IP_10_1_2_3), Str(IP_11_1_2_3)},
      xff \in {Undefined, Str(XFF_CHAIN), Str(<<",", " ">> \o IP_10_1_2_3)},
      xr \in {Undefined, Str(IP_192_168_1_50)},
      peer \in PeerAddresses }

\* the requests that arrive
Inbound(i) ==
    CASE i = "admission" -> Requests \cup ForwardingRequests
      [] i = "forwarding" -> ForwardingRequests
      [] OTHER -> AddressRequests
                  \cup {r \in ForwardingRequests : r.headers.content_type = Str(APPLICATION_JSON)}

\* most chunks of a response body the upstream sends
MaxChunks == 2

\* the chunks of a response body: "Cloud" and "flare", which give the marker
\* "Cloudflare" when one follows the other, and a chunk with a byte that is not
\* UTF-8; or the chunk {"data":[]}
Chunks(i) ==
    IF i = "forwarding"
    THEN {<<"C", "l", "o", "u", "d">>, <<"f", "l", "a", "r", "e">>, <<"{", "0xFF", "}">>}
    ELSE {<<"{", "\"", "d", "a", "t", "a", "\"", ":", "[", "]", "}">>}

\* the status codes of the upstream: around and inside 520..530
UpstreamStatuses(i) == IF i = "forwarding" THEN {200, 519, 520, 524, 530, 531} ELSE {200}

NoError == [defined |-> FALSE, code |-> "", message |-> <<>>]

Err(code, message) == [defined |-> TRUE, code |-> code, message |-> message]

\* "socket hang up": the error of a request whose socket to the upstream is
\* closed under it
SOCKET_HANG_UP == Err("ECONNRESET", <<"s", "o", "c", "k", "e", "t", " ", "h", "a", "n", "g", " ", "u", "p">>)

\* "connect ECONNREFUSED 192.168.50.193:5595"
CONNECTION_REFUSED ==
    Err("ECONNREFUSED",
        <<"c", "o", "n", "n", "e", "c", "t", " ", "E", "C", "O", "N", "N", "R", "E", "F", "U",
          "S", "E", "D", " ", "1", "9", "2", ".", "1", "6", "8", ".", "5", "0", ".", "1", "9",
          "3", ":", "5", "5", "9", "5">>)

\* the 'error' events of proxyReq: once a response is being read only a reset;
\* before it also "connect ETIMEDOUT 192.168.50.193:5595", "getaddrinfo ENOTFOUND
\* lmstudio.local" and "socket timeout"
TransportErrors(i, got) ==
    IF got THEN {SOCKET_HANG_UP}
    ELSE IF i = "forwarding"
    THEN {SOCKET_HANG_UP, CONNECTION_REFUSED,
          Err("ETIMEDOUT",
              <<"c", "o", "n", "n", "e", "c", "t", " ", "E", "T", "I", "M", "E", "D", "O", "U",
                "T", " ", "1", "9", "2", ".", "1", "6", "8", ".", "5", "0", ".", "1", "9", "3",
                ":", "5", "5", "9", "5">>),
          Err("ENOTFOUND",
              <<"g", "e", "t", "a", "d", "d", "r", "i", "n", "f", "o", " ", "E", "N", "O", "T",
                "F", "O", "U", "N", "D", " ", "l", "m", "s", "t", "u", "d", "i", "o", ".", "l",
                "o", "c", "a", "l">>),
          Err("ESOCKETTIMEDOUT", <<"s", "o", "c", "k", "e", "t", " ", "t", "i", "m", "e", "o", "u", "t">>)}
    ELSE {CONNECTION_REFUSED}

\* "Unexpected end of JSON input": what JSON.parse throws on a text cut short
JSON_SYNTAX_ERROR ==
    Err("",
        <<"U", "n", "e", "x", "p", "e", "c", "t", "e", "d", " ", "e", "n", "d", " ", "o", "f",
          " ", "J", "S", "O", "N", " ", "i", "n", "p", "u", "t">>)

NoRequest ==
    [method |-> "", path |-> <<>>, headers |-> NoHeaders, body |-> <<>>, readable |-> TRUE,
     ip |-> Undefined, remoteAddress |-> Undefined]

\* the response headers the model follows: those onProxyRes deletes, and
\* Content-Type for the rest
NoResHeaders ==
    [content_type |-> Undefined, x_powered_by |-> Undefined, via |-> Undefined,
     x_forwarded_for |-> Undefined, x_forwarded_proto |-> Undefined,
     x_forwarded_host |-> Undefined]

\* proxyRes.headers: Content-Type alone, or with it every header onProxyRes deletes;
\* X-Powered-By: PHP, Via: 1.1 edge, X-Forwarded-For: 10.1.2.3,
\* X-Forwarded-Proto: https, X-Forwarded-Host: llm.example.com
UpstreamHeaders(i) ==
    { [NoResHeaders EXCEPT !.content_type = Str(APPLICATION_JSON)] }
    \cup IF i = "forwarding"
         THEN { [content_type |-> Str(<<"t", "e", "x", "t", "/", "h", "t", "m", "l">>),
                 x_powered_by |-> Str(<<"P", "H", "P">>),
                 via |-> Str(<<"1", ".", "1", " ", "e", "d", "g", "e">>),
                 x_forwarded_for |-> Str(IP_10_1_2_3),
                 x_forwarded_proto |-> Str(<<"h", "t", "t", "p", "s">>),
                 x_forwarded_host |->
                     Str(<<"l", "l", "m", ".", "e", "x", "a", "m", "p", "l", "e", ".", "c", "o",
                           "m">>)] }
         ELSE {}

NoResponse ==
    [sent |-> FALSE, status |-> 0, headers |-> NoResHeaders, body |-> <<>>, chunks |-> <<>>,
     ended |-> FALSE]

NoProxyReq ==
    [sent |-> FALSE, attempts |-> 0, method |-> "", path |-> <<>>, headers |-> NoHeaders,
     body |-> <<>>, err |-> NoError, aborted |-> FALSE]

NoProxyRes ==
    [got |-> FALSE, statusCode |-> 0, headers |-> NoResHeaders, emitted |-> <<>>,
     bodyChunks |-> <<>>, over |-> "no"]

NoCidr ==
    [a |-> <<>>, mapped |-> FALSE, n |-> <<>>, p |-> 0, done |-> FALSE, result |-> FALSE]

----------------------------------------------------------------------------
(* Forwarding: what the handlers of the proxy compute *)

\* s.includes(t)
IncludesString(s, t) == \E i \in 0..(Len(s) - Len(t)) : SubSeq(s, i + 1, i + Len(t)) = t

RECURSIVE Concat(_)
\* Buffer.concat(chunks)
Concat(chunks) == IF chunks = <<>> THEN <<>> ELSE Head(chunks) \o Concat(Tail(chunks))

\* buffer.toString('utf-8'): a byte that is not UTF-8 is read as U+FFFD
Utf8Decode(bytes) == [i \in 1..Len(bytes) |-> IF bytes[i] = "0xFF" THEN "U+FFFD" ELSE bytes[i]]

RECURSIVE Utf8Encode(_)
\* the bytes res.end(string) writes: U+FFFD is written as EF BF BD
Utf8Encode(s) ==
    IF s = <<>> THEN <<>>
    ELSE (IF Head(s) = "U+FFFD" THEN <<"0xEF", "0xBF", "0xBD">>
          ELSE <<Head(s)>>) \o Utf8Encode(Tail(s))

\* typeis(req, 'application/json') on a request that has a body
ShouldParse(r) == Len(r.body) > 0 /\ r.headers.content_type = Str(APPLICATION_JSON)

\* JSON.parse in strict mode, on the bodies drawn: an object text runs from "{" to "}"
JsonParses(text) == Len(text) >= 2 /\ text[1] = "{" /\ text[Len(text)] = "}"

\* pathRewrite: { '^/v1': '/v1' }
PathRewrite(path) == IF StartsWith(path, V1) THEN V1 \o Substring(path, Len(V1)) ELSE path

\* onProxyReq: part_000 removes the proxy-identifying headers and authorization;
\* server.js sets Content-Type to the value it has
ProxyReqHeaders(h, b) ==
    IF b = "part_000"
    THEN [h EXCEPT !.x_forwarded_for = Undefined, !.x_forwarded_proto = Undefined,
                   !.x_forwarded_host = Undefined, !.x_real_ip = Undefined,
                   !.cf_connecting_ip = Undefined, !.cf_ray = Undefined,
                   !.authorization = Undefined]
    ELSE [h EXCEPT !.content_type = h.content_type]

\* proxyOptions.timeout in ms (req.socket.setTimeout); 0 = not set
SocketTimeoutMs(b) == IF b = "part_000" THEN 100000 ELSE 0

\* proxyOptions.proxyTimeout in ms (proxyReq.setTimeout); 0 = not set
ProxyTimeoutMs(b) == IF b = "part_000" THEN 100000 ELSE 0

\* res.status(status).json(body), res.writeHead(..., json) + res.end(JSON.stringify(body))
Json(status, body) ==
    [sent |-> TRUE, status |-> status,
     headers |-> [NoResHeaders EXCEPT !.content_type = Str(APPLICATION_JSON)],
     body |-> body, chunks |-> <<>>, ended |-> TRUE]

\* a plausible slip: the status of the upstream is not passed on
WriteHead_Ok(statusCode, headers) ==
    [sent |-> TRUE, status |-> 200, headers |-> headers, body |-> <<>>, chunks |-> <<>>,
     ended |-> FALSE]

\* res.writeHead(statusCode, headers)
WriteHead(statusCode, headers) ==
    [sent |-> TRUE, status |-> statusCode, headers |-> headers, body |-> <<>>, chunks |-> <<>>,
     ended |-> FALSE]

\* Express sets X-Powered-By: Express on every response unless the setting is
\* disabled, as part_000 does
PoweredBy(b) ==
    IF b = "server.js" THEN Str(<<"E", "x", "p", "r", "e", "s", "s">>) ELSE Undefined

\* the head w written on the response r: a header set on r before stays unless w
\* writes it over
WithHeaders(r, w) ==
    [w EXCEPT !.headers = [k \in DOMAIN r.headers |->
                              IF w.headers[k].defined THEN w.headers[k] ELSE r.headers[k]]]

\* the headers passed on with a piped response: part_000 copies proxyRes.headers
\* and deletes the proxy-identifying ones; in server.js http-proxy sets every
\* header of proxyRes
RelayedHeaders(h, b) ==
    IF b = "part_000"
    THEN [h EXCEPT !.x_powered_by = Undefined, !.x_forwarded_for = Undefined,
                   !.x_forwarded_proto = Undefined, !.x_forwarded_host = Undefined,
                   !.via = Undefined]
    ELSE h

\* res.write(chunk), as proxyRes.pipe(res) does for every chunk
Write(r, chunk) == [r EXCEPT !.chunks = Append(@, chunk)]

\* res.end()
End(r) == [r EXCEPT !.ended = TRUE]

\* proxyRes.statusCode >= 520 && proxyRes.statusCode <= 530
CloudflareStatus(statusCode) == statusCode >= 520 /\ statusCode <= 530

\* the body is collected before anything is written: part_000, selfHandleResponse
Buffered(b, statusCode) == b = "part_000" /\ CloudflareStatus(statusCode)

getCloudflareErrorDescription(statusCode) ==
    CASE statusCode = 520 -> "Web Server Returned an Unknown Error"
      [] statusCode = 521 -> "Web Server Is Down"
      [] statusCode = 522 -> "Connection Timed Out"
      [] statusCode = 523 -> "Origin Is Unreachable"
      [] statusCode = 524 -> "A Timeout Occurred"
      [] statusCode = 525 -> "SSL Handshake Failed"
      [] statusCode = 526 -> "Invalid SSL Certificate"
      [] statusCode = 527 -> "Railgun Error"
      [] statusCode = 530 -> "Origin DNS Error"
      [] OTHER -> "Unknown Cloudflare Error"

\* the texts looked for: 'Cloudflare', 'cf-wrapper', 'cf-alert', 'Cloudflare Tunnel error',
\* 'A timeout occurred', 'Error code 524', 'Error code 522', 'Error code 530'
Markers ==
    { <<"C", "l", "o", "u", "d", "f", "l", "a", "r", "e">>,
      <<"c", "f", "-", "w", "r", "a", "p", "p", "e", "r">>,
      <<"c", "f", "-", "a", "l", "e", "r", "t">>,
      <<"C", "l", "o", "u", "d", "f", "l", "a", "r", "e", " ", "T", "u", "n", "n", "e", "l",
          " ", "e", "r", "r", "o", "r">>,
      <<"A", " ", "t", "i", "m", "e", "o", "u", "t", " ", "o", "c", "c", "u", "r", "r", "e",
          "d">>,
      <<"E", "r", "r", "o", "r", " ", "c", "o", "d", "e", " ", "5", "2", "4">>,
      <<"E", "r", "r", "o", "r", " ", "c", "o", "d", "e", " ", "5", "2", "2">>,
      <<"E", "r", "r", "o", "r", " ", "c", "o", "d", "e", " ", "5", "3", "0">> }

\* const isCloudflareError = body.includes(...) || ...
IsCloudflareError(body) == \E marker \in Markers : IncludesString(body, marker)

\* process.env.PORT || 3000, as it is printed
PORT == "3000"

\* the troubleshooting object of the 502 written for an edge error page
CloudflareTroubleshooting(statusCode) ==
    IF statusCode = 524
    THEN ("Check LM Studio" :> "Verify LM Studio is running and responsive")
         @@ ("Check response time" :> "LM Studio may be taking too long to process the request")
         @@ ("Try simpler request" :> "The request might be too complex or large")
         @@ ("Check network" :> "Network latency might be causing timeouts")
         @@ ("Increase timeout" :> "Consider increasing Cloudflare timeout settings")
    ELSE ("Check local server" :> "Verify the server is running: npm start")
         @@ ("Check tunnel" :> "Ensure cloudflared tunnel is running: cloudflared tunnel run lmstudio-tunnel")
         @@ ("Check port" :> <<"Verify tunnel config points to: http://localhost:", PORT>>)
         @@ ("Test locally" :> <<"Test server directly: curl http://localhost:", PORT, "/health">>)

TIMED_OUT_MESSAGE == "Request timed out - Cloudflare timed out waiting for response"

UNREACHABLE_MESSAGE == "Cloudflare tunnel cannot reach the origin server"

\* the JSON written in place of an edge error page
CloudflareErrorBody(statusCode) ==
    [error |-> "Bad Gateway",
     message |-> IF statusCode = 524 THEN TIMED_OUT_MESSAGE ELSE UNREACHABLE_MESSAGE,
     details |-> <<"Cloudflare error ", statusCode, ": ",
           getCloudflareErrorDescription(statusCode)>>,
     troubleshooting |-> CloudflareTroubleshooting(statusCode)]

\* proxyRes.on('end') of the 520..530 branch: the response written from the collected body
EdgeEnd(statusCode, headers, bodyChunks) ==
    LET body == Utf8Decode(Concat(bodyChunks))
    IN  IF IsCloudflareError(body)
        THEN Json(502, CloudflareErrorBody(statusCode))
        ELSE End(Write(WriteHead(statusCode, headers), Utf8Encode(body)))

\* "timeout"
TIMEOUT == <<"t", "i", "m", "e", "o", "u", "t">>

\* err.code === 'ETIMEDOUT' || err.code === 'ECONNRESET' || err.message.includes('timeout')
IsTimeoutError(err) ==
    err.code = "ETIMEDOUT" \/ err.code = "ECONNRESET" \/ IncludesString(err.message, TIMEOUT)

\* onError(err, req, res): the status and the JSON body it writes
onError(err, b) ==
    IF b = "server.js"
    THEN [status |-> 502,
          body |-> [error |-> "Bad Gateway",
                    message |-> "Unable to connect to LM Studio. Is it running?",
                    details |-> err.message]]
    ELSE IF IsTimeoutError(err)
    THEN [status |-> 504,
          body |-> [error |-> "Gateway Timeout",
                    message |-> "Request to LM Studio timed out",
                    details |-> err.message,
                    troubleshooting |->
                        ("Check LM Studio" :> "Verify LM Studio is running and responsive")
                        @@ ("Check response time" :>
                               "LM Studio may be taking too long to process the request")
                        @@ ("Try simpler request" :> "The request might be too complex or large")
                        @@ ("Check network" :>
                               "Network connectivity issues may be causing timeouts")]]
    ELSE IF err.code = "ECONNREFUSED"
    THEN [status |-> 502,
          body |-> [error |-> "Bad Gateway",
                    message |-> "Unable to connect to LM Studio. Is it running?",
                    details |-> err.message,
                    troubleshooting |->
                        ("Check LM Studio" :> <<"Verify LM Studio is running at ", LM_STUDIO_URL>>)
                        @@ ("Test connection" :>
                               <<"Test directly: curl ", LM_STUDIO_URL, "/v1/models">>)
                        @@ ("Check URL" :>
                               <<"Verify LM_STUDIO_URL in .env is correct: ", LM_STUDIO_URL>>)]]
    ELSE [status |-> 502,
          body |-> [error |-> "Bad Gateway",
                    message |-> "Unable to connect to LM Studio",
                    details |-> err.message,
                    errorCode |-> err.code]]

\* the error handling middleware: the status and the JSON body it writes
errorHandler(err) ==
    [status |-> 500, body |-> [error |-> "Internal Server Error", message |-> err.message]]

----------------------------------------------------------------------------
(* The middleware chain *)

\* app.use / app.get in registration order
Chain(b) ==
    IF b = "server.js"
    THEN <<"cors", "express.json", "logging", "health", "ipRestriction", "validateApiKey", "proxy",
           "errorHandler">>
    ELSE <<"logging", "health", "validateApiKey", "proxy", "errorHandler">>

\* a plausible slip: the upstream request may be issued again while the caller
\* has no answer
Running_Retry == pos \in 1..Len(Chain(build)) /\ ~res.sent

\* a request is being dispatched and no response has begun
Running == pos \in 1..Len(Chain(build)) /\ ~res.sent /\ ~proxyReq.sent

At(name) == Running /\ Chain(build)[pos] = name

Config == <<build, API_KEY, ALLOWED_IPS, inputs>>

\* what is fixed once the server listens
Process == <<Config, listening>>

\* the exchange with the upstream and the caller's connection
Exchange == <<proxyReq, proxyRes, socket, uncaught>>

\* next()
CallNext(log) ==
    /\ pos' = pos + 1
    /\ console' = console \o log
    /\ UNCHANGED <<Process, req, thrown, res, Exchange, cidr>>

\* res.status(status).json(body) in a middleware
Respond(status, body, log) ==
    /\ res' = WithHeaders(res, Json(status, body))
    /\ console' = console \o log
    /\ UNCHANGED <<Process, req, pos, thrown, Exchange, cidr>>

Apply(result) ==
    IF result.next THEN CallNext(result.log) ELSE Respond(result.status, result.body, result.log)

RECURSIVE Join(_)
\* ALLOWED_IPS.join(', ')
Join(list) ==
    IF list = <<>> THEN <<>>
    ELSE IF Len(list) = 1 THEN list[1]
    ELSE list[1] \o <<",", " ">> \o Join(Tail(list))

\* the callback of app.listen: the banner, with the first 10 characters of API_KEY
Listen ==
    /\ ~listening
    /\ listening' = TRUE
    /\ console' = << Line("LM Studio Tunnel Server running on port", <<>>),
                     Line("Proxying to", <<>>),
                     Line("API Key configured", SubstringTo(API_KEY, 10)),
                     Line("IP Restrictions", Join(ALLOWED_IPS)),
                     Line("Health check", <<>>) >>
    /\ UNCHANGED <<Config, req, pos, thrown, res, Exchange, cidr>>

\* a request arrives on an idle connection
Receive ==
    /\ listening
    /\ pos = 0
    /\ \E r \in Inbound(inputs) : req' = r
    /\ pos' = 1
    /\ thrown' = NoError
    /\ res' = [NoResponse EXCEPT !.headers.x_powered_by = PoweredBy(build)]
    /\ proxyReq' = NoProxyReq
    /\ proxyRes' = NoProxyRes
    /\ socket' = "open"
    /\ uncaught' = "none"
    /\ console' = <<>>
    /\ UNCHANGED <<Process, cidr>>

\* app.use(cors()): for the methods modelled it calls next()
Cors == At("cors") /\ CallNext(<<>>)

\* app.use(express.json()): a JSON body is read from the request stream and parsed;
\* a text that does not parse goes to next(err), which skips to the error handler
ExpressJson ==
    /\ At("express.json")
    /\ IF ~ShouldParse(req)
       THEN CallNext(<<>>)
       ELSE /\ req' = [req EXCEPT !.readable = FALSE]
            /\ IF JsonParses(req.body)
               THEN pos' = pos + 1 /\ UNCHANGED thrown
               ELSE pos' = Len(Chain(build)) /\ thrown' = JSON_SYNTAX_ERROR
            /\ UNCHANGED <<Process, res, Exchange, console, cidr>>

\* the request logging middleware
RequestLogging == At("logging") /\ CallNext(<<Line("Request", RequesterIp(req).str)>>)

\* the letters of a path in lower case
ToLowerCase(s) ==
    LET upper == <<"A", "B", "C", "D", "E", "F", "G", "H", "I", "J", "K", "L", "M", "N", "O",
                   "P", "Q", "R", "S", "T", "U", "V", "W", "X", "Y", "Z">>
        lower == <<"a", "b", "c", "d", "e", "f", "g", "h", "i", "j", "k", "l", "m", "n", "o",
                   "p", "q", "r", "s", "t", "u", "v", "w", "x", "y", "z">>
    IN  [i \in 1..Len(s) |->
            IF \E k \in 1..26 : upper[k] = s[i]
            THEN lower[CHOOSE k \in 1..26 : upper[k] = s[i]] ELSE s[i]]

\* app.get('/health', ...) matches GET and HEAD; with Express's default settings
\* ('case sensitive routing' and 'strict routing' off) the path is matched
\* without regard to case and with an optional trailing slash
HealthMatches(r) ==
    /\ r.method \in {"GET", "HEAD"}
    /\ ToLowerCase(r.path) \in {HEALTH_PATH, HEALTH_PATH \o <<"/">>}

Health ==
    /\ At("health")
    /\ IF HealthMatches(req)
       THEN Respond(200, [status |-> "ok", timestamp |-> "now", lmStudioUrl |-> LM_STUDIO_URL],
             <<>>)
       ELSE CallNext(<<>>)

IpRestriction == At("ipRestriction") /\ Apply(ipRestriction(req, ALLOWED_IPS, build))

ValidateApiKey == At("validateApiKey") /\ Apply(validateApiKey(req.headers.authorization, API_KEY))

\* app.use('/', proxy): the request is issued to the upstream; what is left unread
\* of the request stream is piped into it
Proxy ==
    /\ At("proxy")
    /\ proxyReq' = [sent |-> TRUE, attempts |-> proxyReq.attempts + 1,
                    method |-> req.method, path |-> PathRewrite(req.path),
                    headers |-> ProxyReqHeaders(req.headers, build),
                    body |-> IF req.readable THEN req.body ELSE <<>>,
                    err |-> NoError, aborted |-> FALSE]
    /\ console' = console \o <<Line("Proxying", <<>>)>>
    /\ UNCHANGED <<Process, req, pos, thrown, res, proxyRes, socket, uncaught, cidr>>

\* the error handling middleware
ErrorHandler ==
    /\ At("errorHandler")
    /\ LET r == errorHandler(thrown) IN Respond(r.status, r.body, <<Line("Error", thrown.message)>>)

----------------------------------------------------------------------------
(* The exchange with the upstream *)

\* the upstream request is in flight and its events are still delivered
Live ==
    /\ proxyReq.sent
    /\ ~proxyReq.err.defined
    /\ proxyRes.over = "no"
    /\ socket = "open"
    /\ uncaught = "none"

\* res.status(status).json(body) in an event handler: once the headers are sent it
\* throws ERR_HTTP_HEADERS_SENT, which nothing catches
Send(status, body) ==
    IF res.sent
    THEN uncaught' = "ERR_HTTP_HEADERS_SENT" /\ UNCHANGED res
    ELSE res' = WithHeaders(res, Json(status, body)) /\ UNCHANGED uncaught

\* the 'error' event of proxyReq reaches onError
EmitError(err, aborted) ==
    /\ proxyReq' = [proxyReq EXCEPT !.err = err, !.aborted = aborted]
    /\ LET r == onError(err, build) IN Send(r.status, r.body)
    /\ console' = console \o <<Line("Proxy error", err.message)>>
    /\ UNCHANGED <<Process, req, pos, thrown, proxyRes, socket, cidr>>

\* the 'error' event of proxyRes: part_000 answers 502, in the pipe branch only if
\* no header is sent; server.js has no listener.  A piped response is not ended.
EmitResponseError(aborted) ==
    /\ proxyRes' = [proxyRes EXCEPT !.over = "error"]
    /\ proxyReq' = [proxyReq EXCEPT !.aborted = aborted]
    /\ IF build = "part_000" /\ (Buffered(build, proxyRes.statusCode) \/ ~res.sent)
       THEN Send(502, [error |-> "Bad Gateway",
             message |-> "Error reading response from origin server"])
       ELSE UNCHANGED <<res, uncaught>>
    /\ console' = console \o <<Line("Error reading proxy response", <<>>)>>
    /\ UNCHANGED <<Process, req, pos, thrown, socket, cidr>>

\* onProxyRes: the status line and headers of the upstream arrive
OnProxyRes ==
    /\ Live
    /\ ~proxyRes.got
    /\ \E statusCode \in UpstreamStatuses(inputs), headers \in UpstreamHeaders(inputs) :
          /\ proxyRes' = [proxyRes EXCEPT !.got = TRUE, !.statusCode = statusCode,
                                          !.headers = headers]
          /\ res' = IF Buffered(build, statusCode) THEN res
                    ELSE WithHeaders(res, WriteHead(statusCode, RelayedHeaders(headers, build)))
    /\ console' = console \o <<Line("Response", <<>>)>>
    /\ UNCHANGED <<Process, req, pos, thrown, proxyReq, socket, uncaught, cidr>>

\* proxyRes 'data': the chunk is pushed to bodyChunks, or piped to the caller
OnData ==
    /\ Live
    /\ proxyRes.got
    /\ Len(proxyRes.emitted) < MaxChunks
    /\ \E chunk \in Chunks(inputs) :
          /\ proxyRes' = [proxyRes EXCEPT
                            !.emitted = Append(@, chunk),
                            !.bodyChunks = IF Buffered(build, proxyRes.statusCode)
                                           THEN Append(@, chunk) ELSE @]
          /\ res' = IF Buffered(build, proxyRes.statusCode) THEN res ELSE Write(res, chunk)
    /\ UNCHANGED <<Process, req, pos, thrown, proxyReq, socket, uncaught, console, cidr>>

\* proxyRes 'end'
OnEnd ==
    /\ Live
    /\ proxyRes.got
    /\ proxyRes' = [proxyRes EXCEPT !.over = "end"]
    /\ res' = IF Buffered(build, proxyRes.statusCode)
              THEN WithHeaders(res, EdgeEnd(proxyRes.statusCode, proxyRes.headers,
                                            proxyRes.bodyChunks))
              ELSE End(res)
    /\ UNCHANGED <<Process, req, pos, thrown, proxyReq, socket, uncaught, console, cidr>>

\* proxyRes 'error': the response breaks off while it is read, also after a
\* transport error has been reported
OnProxyResError ==
    /\ proxyReq.sent
    /\ proxyRes.got
    /\ proxyRes.over = "no"
    /\ socket = "open"
    /\ uncaught = "none"
    /\ EmitResponseError(proxyReq.aborted)

\* onError: a transport failure of the upstream request
OnError ==
    /\ Live
    /\ \E err \in TransportErrors(inputs, proxyRes.got) : EmitError(err, FALSE)

\* proxyTimeout: the socket to the upstream was idle for the set time and the
\* request is aborted; before a response that is a socket hang up on proxyReq,
\* after it the response breaks off
ProxyTimeout ==
    /\ ProxyTimeoutMs(build) > 0
    /\ Live
    /\ IF proxyRes.got THEN EmitResponseError(TRUE) ELSE EmitError(SOCKET_HANG_UP, TRUE)

\* timeout: the caller's socket was idle for the set time; no 'timeout' listener is
\* set, so Node destroys the socket, and the upstream request is aborted with it
SocketTimeout ==
    /\ SocketTimeoutMs(build) > 0
    /\ proxyReq.sent
    /\ ~res.ended
    /\ socket = "open"
    /\ uncaught = "none"
    /\ socket' = "destroyed"
    /\ UNCHANGED <<Process, req, pos, thrown, res, proxyReq, proxyRes, uncaught, console, cidr>>

\* The exchange is over: the response is complete, the connection is gone, or the
\* process died.  The request-scoped objects are dropped; nothing of a request
\* outlives it.
Close ==
    /\ res.ended \/ socket = "destroyed" \/ uncaught # "none"
    /\ req' = NoRequest
    /\ pos' = 0
    /\ thrown' = NoError
    /\ res' = NoResponse
    /\ proxyReq' = NoProxyReq
    /\ proxyRes' = NoProxyRes
    /\ socket' = "open"
    /\ uncaught' = "none"
    /\ console' = <<>>
    /\ UNCHANGED <<Process, cidr>>

Idle ==
    /\ req = NoRequest
    /\ pos = 0
    /\ thrown = NoError
    /\ res = NoResponse
    /\ proxyReq = NoProxyReq
    /\ proxyRes = NoProxyRes
    /\ socket = "open"
    /\ uncaught = "none"
    /\ console = <<>>
    /\ cidr = NoCidr

Init ==
    /\ build \in Builds
    /\ \E e \in EnvApiKeys : API_KEY = OrElse(e, Str(DEFAULT_API_KEY)).str
    /\ \E e \in EnvAllowedIps : ALLOWED_IPS = IF Truthy(e) THEN Split(e.str, ",") ELSE <<>>
    /\ inputs = "admission"
    /\ listening = FALSE
    /\ Idle

Next ==
    \/ Listen
    \/ Receive
    \/ Cors
    \/ ExpressJson
    \/ RequestLogging
    \/ Health
    \/ IpRestriction
    \/ ValidateApiKey
    \/ Proxy
    \/ ErrorHandler
    \/ OnProxyRes
    \/ OnData
    \/ OnEnd
    \/ OnProxyResError
    \/ OnError
    \/ ProxyTimeout
    \/ SocketTimeout
    \/ Close

Spec == Init /\ [][Next]_vars

\* the forwarding in detail: the default key, no allow-list
InitForward ==
    /\ build \in Builds
    /\ API_KEY = OrElse(Undefined, Str(DEFAULT_API_KEY)).str
    /\ ALLOWED_IPS = <<>>
    /\ inputs = "forwarding"
    /\ listening = FALSE
    /\ Idle

SpecForward == InitForward /\ [][Next]_vars

\* routes and address headers in detail: the default key; no allow-list,
\* "10.0.0.0/8", "192.168.1.5,10.0.0.0/8", or "10.0.0.0/8," whose trailing comma
\* leaves an empty entry
InitAddress ==
    /\ build \in Builds
    /\ API_KEY = OrElse(Undefined, Str(DEFAULT_API_KEY)).str
    /\ \E e \in EnvAllowedIps \cup {Str(CIDR_10_8 \o <<",">>)} :
          ALLOWED_IPS = IF Truthy(e) THEN Split(e.str, ",") ELSE <<>>
    /\ inputs = "addressing"
    /\ listening = FALSE
    /\ Idle

SpecAddress == InitAddress /\ [][Next]_vars

----------------------------------------------------------------------------
(* The CIDR test on its own: an address, a network and a prefix length are *)
(* drawn, written as the strings the code reads, and the callback of       *)
(* ALLOWED_IPS.some() is applied to them.                                  *)

RECURSIVE ToDec(_)
\* the decimal digits of n >= 0
ToDec(n) == IF n < 10 THEN <<Digits[n + 1]>> ELSE ToDec(n \div 10) \o <<Digits[(n % 10) + 1]>>

\* "a.b.c.d"
Dotted(o) == ToDec(o[1]) \o <<".">> \o ToDec(o[2]) \o <<".">> \o ToDec(o[3]) \o <<".">> \o ToDec(o[4])

\* "a.b.c.d/p"
CidrEntry(o, p) == Dotted(o) \o <<"/">> \o ToDec(p)

\* first octets differ in the top bit (10, 138), in the last bit (10, 11), in all (255)
CidrQuads == {<<o1, o2, 0, o4>> : o1 \in {10, 11, 138, 255}, o2 \in {0, 1}, o4 \in {2, 3}}

PrefixLengths == 0..32

InitCidr ==
    /\ build = "part_000"
    /\ API_KEY = DEFAULT_API_KEY
    /\ ALLOWED_IPS = <<>>
    /\ inputs = "admission"
    /\ listening = FALSE
    /\ req = NoRequest
    /\ pos = 0
    /\ thrown = NoError
    /\ res = NoResponse
    /\ proxyReq = NoProxyReq
    /\ proxyRes = NoProxyRes
    /\ socket = "open"
    /\ uncaught = "none"
    /\ console = <<>>
    /\ \E a \in CidrQuads, mapped \in BOOLEAN, n \in CidrQuads, p \in PrefixLengths :
          cidr = [a |-> a, mapped |-> mapped, n |-> n, p |-> p, done |-> FALSE,
                  result |-> FALSE]

\* the address as the string the code reads: "a.b.c.d", or "::ffff:a.b.c.d"
ClientAddress(a, mapped) ==
    IF mapped THEN <<":", ":", "f", "f", "f", "f", ":">> \o Dotted(a) ELSE Dotted(a)

\* the callback of some() on clientIp = "a" and allowedIp = "n/p"
CidrTest ==
    /\ ~cidr.done
    /\ cidr' = [cidr EXCEPT !.done = TRUE,
                            !.result = EntryMatches(ClientAddress(cidr.a, cidr.mapped),
                                                    CidrEntry(cidr.n, cidr.p))]
    /\ UNCHANGED <<Process, req, pos, thrown, res, Exchange, console>>

NextCidr == CidrTest

SpecCidr == InitCidr /\ [][NextCidr]_vars

----------------------------------------------------------------------------
(* What can be observed of the current request *)

\* the middleware the request is at
Stage == IF pos = 0 THEN "none" ELSE Chain(build)[pos]

\* the named middleware wrote the response
AnsweredBy(name) == res.sent /\ Stage = name

\* validateApiKey called next(): the request is at the proxy
ValidatorAccepted == Stage = "proxy"

ValidatorRan == AnsweredBy("validateApiKey") \/ ValidatorAccepted

\* the exchange with the caller has been decided
Finished == res.sent \/ proxyReq.sent

\* a middleware handed an error to next(err)
Failed == thrown.defined

\* the Authorization header holds a candidate credential
HasCandidate == Truthy(req.headers.authorization)

\* the candidate credential of the request
Cand == ProvidedKey(req.headers.authorization.str)

\* the admission filter of the running entry point, applied to the request
Admits == ipRestriction(req, ALLOWED_IPS, build).next

WellFormedSecret == StartsWith(API_KEY, SK) /\ Len(API_KEY) >= 10

MalformedMessage == "API key must start with \"sk-\""

----------------------------------------------------------------------------
(* Claims *)

\* C1: on a non-health path an upstream request is issued only if the admission
\* filter accepted the caller and the candidate credential equals the configured
\* secret.  Fails in part_000, where ipRestriction is not mounted.
C1_UpstreamOnlyIfAdmittedAndAuthenticated ==
    proxyReq.sent => /\ ~HealthMatches(req)
                     /\ Admits
                     /\ HasCandidate
                     /\ Cand = API_KEY

\* C2, as claimed: for every configured secret, a request whose candidate
\* credential equals the secret is accepted by the validator and reaches the
\* forwarding engine.
C2_EqualCandidateAccepted ==
    ValidatorRan /\ HasCandidate /\ Cand = API_KEY => ValidatorAccepted

\* C2, amended: for every configured secret that starts with "sk-" and has length
\* 10 or more, a request reaching the validator whose candidate credential equals
\* the secret is accepted and reaches the forwarding engine.
C2_EqualCandidateAcceptedIfWellFormed ==
    ValidatorRan /\ HasCandidate /\ Cand = API_KEY /\ WellFormedSecret => ValidatorAccepted

C2_Witness ==
    /\ proxyReq.sent
    /\ req.headers.authorization = Str(API_KEY)
    /\ WellFormedSecret

\* C3: every rejection by the validator is a 401 with a JSON body {error, message};
\* error is "Missing authorization header" without the header, "Invalid API key
\* format" for a malformed or too short candidate, "Invalid API key" for a mismatch.
C3_RejectionsAre401 ==
    AnsweredBy("validateApiKey") =>
        /\ res.status = 401
        /\ DOMAIN res.body = {"error", "message"}
        /\ res.body.error \in {"Missing authorization header", "Invalid API key format",
              "Invalid API key"}
        /\ ~req.headers.authorization.defined => res.body.error = "Missing authorization header"
        /\ HasCandidate /\ (~StartsWith(Cand, SK) \/ Len(Cand) < 10)
              => res.body.error = "Invalid API key format"
        /\ HasCandidate /\ StartsWith(Cand, SK) /\ Len(Cand) >= 10
              => res.body.error = "Invalid API key" /\ Cand # API_KEY

C3_Witness ==
    /\ AnsweredBy("validateApiKey")
    /\ HasCandidate
    /\ res.body.error = "Invalid API key"

\* C4: a candidate that does not start with "sk-" is rejected as malformed (401,
\* "Invalid API key format", the "must start with sk-" message) whatever its length
\* and whatever the secret: the prefix check comes before the length check and
\* before the comparison.
C4_NoPrefixIsMalformed ==
    ValidatorRan /\ HasCandidate /\ ~StartsWith(Cand, SK) =>
        /\ AnsweredBy("validateApiKey")
        /\ res.status = 401
        /\ res.body.error = "Invalid API key format"
        /\ res.body.message = MalformedMessage

\* a candidate equal to the configured secret, rejected for its prefix
C4_Witness ==
    /\ AnsweredBy("validateApiKey")
    /\ HasCandidate
    /\ Cand = API_KEY
    /\ ~StartsWith(Cand, SK)
    /\ res.body.message = MalformedMessage

\* C5: a candidate starting with "sk-" of length 9 or less is rejected as too
\* short, even when it equals the secret; one of length 10 or more is accepted
\* exactly when it equals the secret, and otherwise rejected as a mismatch.
C5_LengthBoundary ==
    ValidatorRan /\ HasCandidate /\ StartsWith(Cand, SK) =>
        IF Len(Cand) <= 9
        THEN /\ AnsweredBy("validateApiKey")
             /\ res.status = 401
             /\ res.body.message = "API key is too short"
        ELSE /\ ValidatorAccepted <=> Cand = API_KEY
             /\ ~ValidatorAccepted => res.status = 401 /\ res.body.error = "Invalid API key"

\* a candidate of length 9 equal to the configured secret, rejected as too short
C5_Witness ==
    /\ AnsweredBy("validateApiKey")
    /\ HasCandidate
    /\ Len(Cand) = 9
    /\ Cand = API_KEY
    /\ res.body.message = "API key is too short"

\* what the validator did with the current request
ObservedOutcome == [next |-> ValidatorAccepted, status |-> res.status, body |-> res.body]

SameOutcome(o1, o2) ==
    /\ o1.next = o2.next
    /\ ~o1.next => o1.status = o2.status /\ o1.body = o2.body

\* C6: for a key k that does not start with "Bearer ", the header "Bearer " + k has
\* the outcome of the header k; "bearer " in lower case is not stripped, and the
\* prefix is stripped once only.
C6_BearerPrefixEquivalence ==
    ValidatorRan /\ HasCandidate =>
        LET h == req.headers.authorization.str
            k == SubSeq(h, Len(BEARER) + 1, Len(h))
        IN  /\ StartsWith(h, BEARER) /\ ~StartsWith(k, BEARER)
               => SameOutcome(ObservedOutcome, validateApiKey(Str(k), API_KEY))
            /\ StartsWith(h, LOWER_BEARER)
               => AnsweredBy("validateApiKey") /\ res.body.message = MalformedMessage
            /\ StartsWith(h, BEARER \o BEARER)
               => AnsweredBy("validateApiKey") /\ res.body.message = MalformedMessage

\* "Bearer " + the key is accepted
C6_Witness ==
    /\ proxyReq.sent
    /\ req.headers.authorization = Str(BEARER \o API_KEY)

\* C7: the stages run in the order admission, validator, forwarding: a request that
\* fails admission gets 403 whatever its credential, and nothing is forwarded that
\* the validator did not accept.  Fails in part_000: a disallowed caller without a
\* credential gets 401.
C7_AdmissionBeforeValidator ==
    /\ Finished /\ ~Failed /\ ~HealthMatches(req) /\ ~Admits => res.sent /\ res.status = 403
    /\ proxyReq.sent => validateApiKey(req.headers.authorization, API_KEY).next

\* the credential of the current request is the configured, well-formed secret
CredentialValid == HasCandidate /\ Cand = API_KEY /\ WellFormedSecret

\* C8: with an empty allow-list admission never rejects: every request off the
\* health route reaches the validator, address resolved or not, and is forwarded
\* if its credential is valid.
C8_EmptyAllowListAdmitsAll ==
    Len(ALLOWED_IPS) = 0 =>
        /\ ~AnsweredBy("ipRestriction")
        /\ res.sent => res.status # 403
        /\ Finished /\ ~Failed /\ ~HealthMatches(req) => ValidatorRan /\ (CredentialValid => proxyReq.sent)

\* server.js, no allow-list: a request whose address does not resolve is forwarded
C8_Witness ==
    /\ build = "server.js"
    /\ Len(ALLOWED_IPS) = 0
    /\ ~Truthy(ClientIp(req))
    /\ proxyReq.sent

\* C9: with a non-empty allow-list, a request off the health route whose resolved
\* address is not loopback and matches no entry gets 403 "IP address not allowed"
\* and is not forwarded.  Fails in part_000, where ipRestriction is not mounted.
C9_NotAllowedIs403 ==
    /\ Finished
    /\ ~Failed
    /\ ~HealthMatches(req)
    /\ Len(ALLOWED_IPS) > 0
    /\ Truthy(ClientIp(req))
    /\ ~IsLocalhost(ClientIp(req).str)
    /\ ~IsAllowed(ClientIp(req).str, ALLOWED_IPS)
    => /\ res.sent
       /\ res.status = 403
       /\ res.body = [error |-> "IP address not allowed"]
       /\ ~proxyReq.sent

\* the top p bits of the 32-bit forms of the quads a and n are equal: octet k
\* holds bits 8(k-1)+1 .. 8k, of which the first `bits` are compared
TopBitsEqual(a, n, p) ==
    \A k \in 1..4 :
        LET bits == IF p >= 8 * k THEN 8 ELSE IF p <= 8 * (k - 1) THEN 0 ELSE p - 8 * (k - 1)
        IN  a[k] \div (2 ^ (8 - bits)) = n[k] \div (2 ^ (8 - bits))

\* C10: the CIDR test accepts a dotted quad a against n/p exactly when the top p
\* bits of a and n are equal, for p in 0..32, also for first octets of 128 and more.
C10_CidrTopBits ==
    cidr.done /\ ~cidr.mapped => (cidr.result <=> TopBitsEqual(cidr.a, cidr.n, cidr.p))

\* an address with first octet >= 128 accepted by a network it differs from
C10_Witness ==
    /\ cidr.done
    /\ ~cidr.mapped
    /\ cidr.result
    /\ cidr.a[1] >= 128
    /\ cidr.a # cidr.n
    /\ cidr.p \in 1..31

----------------------------------------------------------------------------
(* Claims on admission of loopback callers, on what is forwarded, and on    *)
(* how the responses and failures of the upstream reach the caller          *)

\* an address in 127.0.0.0/8, or ::1
LoopbackAddress(ip) == StartsWith(ip, LOCALHOST_PREFIX) \/ ip = LOCALHOST_V6

\* C11: a request off the health route whose resolved address is loopback passes
\* admission whatever the allow-list holds: it reaches the credential validator,
\* which alone may reject it.  Fails in server.js, whose ipRestriction has no
\* loopback bypass.
C11_LoopbackAdmitted ==
    /\ Finished
    /\ ~Failed
    /\ ~HealthMatches(req)
    /\ Truthy(ClientIp(req))
    /\ LoopbackAddress(ClientIp(req).str)
    => ValidatorRan

\* C12: the request sent to the upstream has no Authorization header and none of
\* X-Forwarded-For, X-Forwarded-Proto, X-Forwarded-Host, X-Real-IP,
\* CF-Connecting-IP, CF-Ray, whatever the caller sent.  Fails in server.js, whose
\* onProxyReq removes nothing.
C12_UpstreamHeadersScrubbed ==
    proxyReq.sent =>
        /\ ~proxyReq.headers.authorization.defined
        /\ ~proxyReq.headers.x_forwarded_for.defined
        /\ ~proxyReq.headers.x_forwarded_proto.defined
        /\ ~proxyReq.headers.x_forwarded_host.defined
        /\ ~proxyReq.headers.x_real_ip.defined
        /\ ~proxyReq.headers.cf_connecting_ip.defined
        /\ ~proxyReq.headers.cf_ray.defined

\* C13: method, path (a /v1 prefix included) and body bytes sent to the upstream
\* are those received from the caller, and no middleware ahead of the proxy has
\* read the request body.  Fails in server.js, where express.json() reads it.
C13_RequestPassedThrough ==
    proxyReq.sent =>
        /\ proxyReq.method = req.method
        /\ proxyReq.path = req.path
        /\ proxyReq.body = req.body
        /\ req.readable

\* the caller's connection is up
Connected == socket = "open"

\* C14: for a response of the upstream with a status outside 520..530, the caller
\* has that status and, at every moment, exactly the chunks the upstream has sent
\* so far, in their order; the response to the caller ends when the upstream's does.
C14_OtherStatusesRelayed ==
    proxyRes.got /\ ~CloudflareStatus(proxyRes.statusCode) /\ Connected =>
        /\ res.sent
        /\ res.status = proxyRes.statusCode
        /\ res.chunks = proxyRes.emitted
        /\ proxyRes.over = "end" => res.ended

\* a 531 of two chunks relayed to its end
C14_Witness ==
    /\ proxyRes.over = "end"
    /\ proxyRes.statusCode = 531
    /\ Len(proxyRes.emitted) >= 2
    /\ res.ended
    /\ res.chunks = proxyRes.emitted

\* the response is a JSON document the server wrote
JsonAnswer == res.sent /\ DOMAIN res.body # {}

\* the body the upstream sent holds a marker of an edge error page
MarkerSent == IsCloudflareError(Concat(proxyRes.emitted))

\* C15: when a response of the upstream with status 520..530 has ended and its body
\* holds an edge-error-page marker, the caller has a 502 with the JSON body {error:
\* "Bad Gateway", message, details, troubleshooting}, message being the timeout text
\* exactly for status 524; while that body is being received nothing is written
\* to the caller.  Fails in server.js, which relays the page.
C15_EdgeErrorPageReplaced ==
    /\ proxyRes.got /\ CloudflareStatus(proxyRes.statusCode) /\ Live => ~res.sent
    /\ /\ proxyRes.over = "end"
       /\ CloudflareStatus(proxyRes.statusCode)
       /\ MarkerSent
       /\ Connected
       => /\ JsonAnswer
          /\ res.status = 502
          /\ DOMAIN res.body = {"error", "message", "details", "troubleshooting"}
          /\ res.body.error = "Bad Gateway"
          /\ res.body.message = IF proxyRes.statusCode = 524 THEN TIMED_OUT_MESSAGE
                ELSE UNREACHABLE_MESSAGE
          /\ res.chunks = <<>>

\* the troubleshooting object names the configured upstream URL
NamesUpstream(troubleshooting) ==
    \E k \in DOMAIN troubleshooting :
        \E i \in 1..Len(troubleshooting[k]) : troubleshooting[k][i] = LM_STUDIO_URL

\* C16: a transport failure of the upstream request, before any response of the
\* upstream, has exactly one outcome: ETIMEDOUT, ECONNRESET or a message containing
\* "timeout" gives 504 "Gateway Timeout" with a troubleshooting object; otherwise
\* ECONNREFUSED gives 502 "Bad Gateway" with a troubleshooting object naming the
\* upstream URL; every other error gives 502 "Bad Gateway" with the error's code
\* and message.  Fails in server.js, whose onError always writes the same 502.
C16_TransportFailureClassified ==
    proxyReq.err.defined /\ ~proxyRes.got /\ Connected =>
        LET err == proxyReq.err IN
        /\ JsonAnswer
        /\ IF err.code \in {"ETIMEDOUT", "ECONNRESET"} \/ IncludesString(err.message, TIMEOUT)
           THEN /\ res.status = 504
                /\ res.body.error = "Gateway Timeout"
                /\ "troubleshooting" \in DOMAIN res.body
           ELSE IF err.code = "ECONNREFUSED"
           THEN /\ res.status = 502
                /\ res.body.error = "Bad Gateway"
                /\ "troubleshooting" \in DOMAIN res.body
                /\ NamesUpstream(res.body.troubleshooting)
           ELSE /\ res.status = 502
                /\ res.body.error = "Bad Gateway"
                /\ "errorCode" \in DOMAIN res.body
                /\ res.body.errorCode = err.code
                /\ res.body.details = err.message

\* C17: GET /health is answered by the health route with 200 and {status: "ok",
\* timestamp, lmStudioUrl: the configured upstream URL}, whatever the headers, the
\* allow-list and the credential; it never reaches the admission filter or the
\* validator and nothing is sent to the upstream.  Fails in server.js, where
\* express.json() runs first and hands a body that does not parse to the error
\* handler.
C17_HealthAlwaysOk ==
    req.method = "GET" /\ req.path = HEALTH_PATH =>
        /\ ~Failed
        /\ Stage \notin {"ipRestriction", "validateApiKey", "proxy", "errorHandler"}
        /\ ~proxyReq.sent
        /\ res.sent =>
              /\ res.status = 200
              /\ DOMAIN res.body = {"status", "timestamp", "lmStudioUrl"}
              /\ res.body.status = "ok"
              /\ res.body.lmStudioUrl = LM_STUDIO_URL

\* C18: a failure handed to the error handler is answered with 500 and {error:
\* "Internal Server Error", message}, and the message is not the text of the
\* error.  Fails in both entry points: the handler sends err.message.
C18_InternalFailureGeneric ==
    Failed /\ res.sent =>
        /\ res.status = 500
        /\ DOMAIN res.body = {"error", "message"}
        /\ res.body.error = "Internal Server Error"
        /\ res.body.message # thrown.message

\* the upstream request is in flight and the upstream has sent nothing
AwaitingUpstream == Live /\ ~proxyRes.got

\* C19: while the upstream has not answered, the timer that aborts the upstream
\* request is armed, and a wait ended by a timer leaves the caller with the 504
\* "Gateway Timeout" answer.  Fails in server.js, which sets no timeout; in part_000
\* the timer on the caller's socket, set to the same 100 s, may end the wait first.
C19_TimeoutAnswered ==
    /\ AwaitingUpstream => ENABLED ProxyTimeout
    /\ (proxyReq.aborted \/ socket = "destroyed") /\ ~proxyRes.got =>
          /\ Connected
          /\ JsonAnswer
          /\ res.status = 504
          /\ res.body.error = "Gateway Timeout"

\* C20: whatever the order of the events of the upstream, no handler writes a
\* status or headers once headers are sent, the caller's connection is not torn
\* down, and a failure is answered in JSON.  Fails in part_000: onError does not
\* test res.headersSent.
C20_AtMostOneResponse ==
    /\ uncaught = "none"
    /\ Connected
    /\ proxyReq.err.defined /\ ~proxyRes.got => JsonAnswer

----------------------------------------------------------------------------
(* Claims on responses that break off, on the headers of relayed responses, *)
(* on retries, on the resolved client address, on what is logged and on     *)
(* the health route                                                         *)

\* the head of the upstream's response was passed on to the caller as it came
HeadRelayed == proxyRes.got /\ ~Buffered(build, proxyRes.statusCode)

\* C21: once the response of the upstream has broken off after its head was passed
\* on, the response to the caller keeps the upstream's status and is brought to an
\* end: it is ended, or the connection is closed, or a timer that will close it is
\* running.  Fails in server.js: nothing ends the piped response and no timer is set.
C21_BrokenStreamTerminated ==
    HeadRelayed /\ proxyRes.over = "error" =>
        /\ res.sent
        /\ res.status = proxyRes.statusCode
        /\ res.ended \/ ~Connected \/ uncaught # "none" \/ ENABLED SocketTimeout

\* every header of the upstream's response is a header of the caller's, same value
HeadersPassedOn ==
    \A k \in DOMAIN proxyRes.headers :
        proxyRes.headers[k].defined => res.headers[k] = proxyRes.headers[k]

\* C22: when a response of the upstream with status 520..530 has ended and its body
\* holds no edge-error-page marker, the caller has the status and the headers of the
\* upstream and a complete body of the same bytes.  Fails in part_000: the body is
\* decoded as UTF-8 and encoded again, which replaces a byte that is not UTF-8.
C22_UnmarkedEdgeStatusRelayed ==
    /\ proxyRes.over = "end"
    /\ CloudflareStatus(proxyRes.statusCode)
    /\ ~MarkerSent
    /\ Connected
    => /\ res.sent
       /\ res.ended
       /\ res.status = proxyRes.statusCode
       /\ HeadersPassedOn
       /\ Concat(res.chunks) = Concat(proxyRes.emitted)

\* the response the caller has is the upstream's, not a JSON document of the server
Relayed == proxyRes.got /\ res.sent /\ ~JsonAnswer

\* C23: a response of the upstream relayed to the caller carries none of
\* X-Powered-By, Via, X-Forwarded-For, X-Forwarded-Proto, X-Forwarded-Host, and has
\* the status and every other header of the upstream.  Fails in part_000 for a
\* status in 520..530 relayed as it is, and in server.js for every response.
C23_ResponseHeadersScrubbed ==
    Relayed =>
        /\ ~res.headers.x_powered_by.defined
        /\ ~res.headers.via.defined
        /\ ~res.headers.x_forwarded_for.defined
        /\ ~res.headers.x_forwarded_proto.defined
        /\ ~res.headers.x_forwarded_host.defined
        /\ res.status = proxyRes.statusCode
        /\ res.headers.content_type = proxyRes.headers.content_type

\* C24: for an inbound request at most one request is issued to the upstream: once
\* it is issued, whatever follows (a timeout, a connection failure, an edge error
\* response, an answer to the caller), it is not issued again.
C24_SingleAttempt ==
    /\ proxyReq.attempts <= 1
    /\ proxyReq.sent => proxyReq.attempts = 1 /\ ~ENABLED Proxy

\* a timeout answered with 504, and an edge error page answered with 502, after
\* one attempt
C24_Witness ==
    /\ proxyReq.attempts = 1
    /\ JsonAnswer
    /\ \/ proxyReq.err.defined /\ res.status = 504
       \/ proxyRes.over = "end" /\ CloudflareStatus(proxyRes.statusCode) /\ res.status = 502

RECURSIVE FirstNonEmpty(_)
\* the first value of a sequence that is defined and not empty, if there is one
FirstNonEmpty(values) ==
    IF values = <<>> THEN Undefined
    ELSE IF Head(values).defined /\ Head(values).str # <<>> THEN Head(values)
    ELSE FirstNonEmpty(Tail(values))

\* the first segment of a forwarded-for chain, without the white space around it
FirstSegment(v) ==
    IF ~v.defined THEN Undefined
    ELSE Str(Trim(IF Includes(v.str, ",") THEN SubSeq(v.str, 1, IndexOf(v.str, ",") - 1)
                  ELSE v.str))

\* the priority chain of the client address
Resolved(r) ==
    FirstNonEmpty(<<r.headers.cf_connecting_ip, r.ip, FirstSegment(r.headers.x_forwarded_for),
                    r.headers.x_real_ip, r.remoteAddress>>)

\* C25: the address the server resolves, as the request log and the admission
\* filter print it, is the first defined, non-empty value of CF-Connecting-IP,
\* req.ip, the first trimmed segment of X-Forwarded-For, X-Real-IP and the socket's
\* peer address; it is "unknown" (unresolved for the filter, which answers 403) only
\* when all of them are empty; it depends on nothing else.
C25_AddressPriority ==
    /\ \A i \in DOMAIN console :
          /\ console[i].tag = "Request" =>
                console[i].text = IF Resolved(req).defined THEN Resolved(req).str
                                  ELSE <<"u", "n", "k", "n", "o", "w", "n">>
          /\ console[i].tag = "IP Detection" =>
                console[i].text = IF Resolved(req).defined THEN Resolved(req).str ELSE <<>>
    /\ AnsweredBy("ipRestriction") =>
          (res.body = [error |-> "Unable to determine client IP"] <=> ~Resolved(req).defined)

\* an empty CF-Connecting-IP, no peer address and a forwarded-for chain whose first
\* segment is empty: X-Real-IP is the address
C25_Witness ==
    /\ req.headers.cf_connecting_ip = Str(<<>>)
    /\ ~req.ip.defined
    /\ req.headers.x_forwarded_for = Str(<<",", " ">> \o IP_10_1_2_3)
    /\ \E i \in DOMAIN console :
          console[i] = Line("IP Detection", IP_192_168_1_50)

\* C26: a mismatch is logged with the first 10 characters of the candidate, and no
\* line the server logs, the banner included, holds the configured secret in full.
\* Fails for a secret of 10 characters or less, which the banner prints in full.
C26_SecretNotLogged ==
    /\ AnsweredBy("validateApiKey") /\ res.body.error = "Invalid API key" =>
          \E i \in DOMAIN console :
              console[i] = Line("Invalid API key attempt", SubstringTo(Cand, 10))
    /\ \A i \in DOMAIN console : ~IncludesString(console[i].text, API_KEY)

\* the requests that differ from r in the peer address, X-Forwarded-For and
\* X-Real-IP only
Variants(r) ==
    { [r EXCEPT !.ip = peer, !.remoteAddress = peer,
                !.headers.x_forwarded_for = xff, !.headers.x_real_ip = xr] :
      peer \in PeerAddresses,
      xff \in {Undefined, Str(XFF_CHAIN), Str(IP_11_1_2_3)},
      xr \in {Undefined, Str(IP_192_168_1_50), Str(IP_11_1_2_3)} }

\* the admission decision of the running entry point on the request r
Admitted(r) ==
    (\E i \in DOMAIN Chain(build) : Chain(build)[i] = "ipRestriction")
        => ipRestriction(r, ALLOWED_IPS, build).next

\* C27: for a request with a non-empty CF-Connecting-IP the admission decision is
\* that of every request that differs from it in the peer address, X-Forwarded-For
\* and X-Real-IP only, and a header value that matches the allow-list is admitted
\* whatever the peer address is.
C27_HeaderDecidesAdmission ==
    /\ Finished
    /\ ~Failed
    /\ ~HealthMatches(req)
    /\ Truthy(req.headers.cf_connecting_ip)
    => /\ ValidatorRan <=> Admitted(req)
       /\ \A v \in Variants(req) : Admitted(v) <=> ValidatorRan
       /\ IsAllowed(req.headers.cf_connecting_ip.str, ALLOWED_IPS) => ValidatorRan

\* server.js: the header names an address of the allow-list, the peer is outside
\* of it, and the request is forwarded
C27_Witness ==
    /\ build = "server.js"
    /\ ALLOWED_IPS = <<CIDR_10_8>>
    /\ req.headers.cf_connecting_ip = Str(IP_10_1_2_3)
    /\ req.ip = Str(IP_11_1_2_3)
    /\ proxyReq.sent

\* the allow-list holds an empty entry
HasEmptyEntry == \E i \in DOMAIN ALLOWED_IPS : ALLOWED_IPS[i] = <<>>

\* C28: an entry without "/" matches the addresses it is a prefix of, as it stands;
\* an allow-list with an empty entry is not empty and admits every request whose
\* address resolves.
C28_EmptyEntryAdmitsAll ==
    /\ Finished
    /\ ~Failed
    /\ ~HealthMatches(req)
    /\ Truthy(ClientIp(req))
    => /\ \A i \in DOMAIN ALLOWED_IPS :
             ~Includes(ALLOWED_IPS[i], "/") =>
                 (EntryMatches(ClientIp(req).str, ALLOWED_IPS[i])
                     <=> StartsWith(ClientIp(req).str, ALLOWED_IPS[i]))
       /\ HasEmptyEntry => Len(ALLOWED_IPS) > 0 /\ ValidatorRan

\* server.js: an address outside 10.0.0.0/8 is forwarded under "10.0.0.0/8,"
C28_Witness ==
    /\ build = "server.js"
    /\ ALLOWED_IPS = <<CIDR_10_8, <<>>>>
    /\ ClientIp(req) = Str(IP_11_1_2_3)
    /\ proxyReq.sent

\* C29: an address in the form ::ffff:a.b.c.d is accepted by the entry n/p exactly
\* when the top p bits of a.b.c.d and n are equal.  Fails: ipToNumber reads the
\* first octet "::ffff:a" as NaN, which the shift turns into 0.
C29_MappedAddressInCidr ==
    cidr.done /\ cidr.mapped => (cidr.result <=> TopBitsEqual(cidr.a, cidr.n, cidr.p))

\* C30: the health route answers GET and HEAD on the path /health only; a request to
\* /health with another method that passes admission reaches the validator and,
\* with a valid credential, is forwarded with its path.  Fails: the route also
\* answers /health/ and /HEALTH.
C30_OnlyExactHealthBypasses ==
    /\ AnsweredBy("health") => req.method \in {"GET", "HEAD"} /\ req.path = HEALTH_PATH
    /\ /\ Finished
       /\ ~Failed
       /\ req.path = HEALTH_PATH
       /\ req.method \notin {"GET", "HEAD"}
       /\ ~AnsweredBy("ipRestriction")
       => /\ ValidatorRan
          /\ CredentialValid => proxyReq.sent /\ proxyReq.path = HEALTH_PATH

====
